---------------------------- MODULE Spec2Model ----------------------------
(***************************************************************************)
(* Model of the humcp tool pipeline: decoration, discovery and MCP         *)
(* registration (src/humcp/server.py, src/humcp/decorator.py,              *)
(* src/tools/__init__.py), config validation and filtering                 *)
(* (src/humcp/config.py) and REST route generation (src/humcp/routes.py),  *)
(* with the legacy loader (src/mcp_register.py) and the route generator of *)
(* the adapter (src/adapter/routes.py).                                    *)
(*                                                                         *)
(* Strings are sequences of one-character strings, so that glob matching,  *)
(* which works character by character, is computed rather than assumed.    *)
(* Python's None is the one-element sequence None, which no string of the  *)
(* model equals.                                                           *)
(***************************************************************************)
EXTENDS Integers, Sequences, FiniteSets, TLC

VARIABLES
    modules,        \* the imported tool modules, in load order: each a set of functions
    TOOL_REGISTRY,  \* the global registration list
    pc,             \* where create_app (or the called function) stands
    mcp,            \* tool names registered with the FastMCP server -> callable
    tools,          \* the list _discover_and_register returned
    config,         \* the ToolsConfig that load_config returned
    filtered,       \* the list filter_tools returned
    rest,           \* what register_routes built: routes, categories, lookup, total
    raised,         \* the exception the last operation raised, "none" when it returned
    last,           \* the last operation and its arguments
    args,           \* arguments of the function under call (function-level specifications)
    ret             \* its outcome

vars == <<modules, TOOL_REGISTRY, pc, mcp, tools, config, filtered, rest, raised,
          last, args, ret>>

-----------------------------------------------------------------------------
(* Bounds *)

MaxPatLen == 4      \* longest pattern of SpecMatch
MaxNameLen == 3     \* longest tool name of SpecMatch
MaxEntries == 3     \* most entries of a config, all four lists together
MaxTools == 2       \* longest tool list handed to filter_tools

None == <<"<None>">>

PatChars == {"a", "*", "?", "[", "]", "!"}
NameChars == {"a", "b", "]"}

Strs(S, n) == UNION {[1..k -> S] : k \in 0..n}

Range(s) == {s[i] : i \in 1..Len(s)}

-----------------------------------------------------------------------------
(* fnmatch.fnmatch as config.py calls it: translate() followed by a whole-  *)
(* string regular-expression match.  On POSIX normcase is the identity.     *)
(* The alphabet has no "-", so a character class never holds a range.       *)

STAR == [t |-> "STAR"]
ANYCHAR == [t |-> "ANY"]
NEVER == [t |-> "NEVER"]
Lit(c) == [t |-> "LIT", c |-> c]
CharSet(neg, cs) == [t |-> "SET", neg |-> neg, cs |-> cs]

\* The index of the "]" closing the class that opens before index i, or
\* Len(pat) + 1 when there is none (translate's scan for j).
RECURSIVE ScanClose(_, _)
ScanClose(pat, j) ==
    IF j <= Len(pat) /\ pat[j] # "]" THEN ScanClose(pat, j + 1) ELSE j

ClassEnd(pat, i) ==
    LET j1 == IF i <= Len(pat) /\ pat[i] = "!" THEN i + 1 ELSE i
        j2 == IF j1 <= Len(pat) /\ pat[j1] = "]" THEN j1 + 1 ELSE j1
    IN  ScanClose(pat, j2)

\* The regular-expression piece for the class body stuff = pat[i:j].
ClassToken(stuff) ==
    IF stuff = <<>> THEN NEVER
    ELSE IF stuff = <<"!">> THEN ANYCHAR
    ELSE IF stuff[1] = "!" THEN CharSet(TRUE, Range(Tail(stuff)))
    ELSE CharSet(FALSE, Range(stuff))

\* translate(), first loop: the pattern as a list of pieces, consecutive
\* stars compressed into one.
RECURSIVE Pieces(_, _, _)
Pieces(pat, i, res) ==
    IF i > Len(pat) THEN res
    ELSE LET c == pat[i] IN
        IF c = "*" THEN
            IF res = <<>> \/ res[Len(res)] # STAR
            THEN Pieces(pat, i + 1, Append(res, STAR))
            ELSE Pieces(pat, i + 1, res)
        ELSE IF c = "?" THEN Pieces(pat, i + 1, Append(res, ANYCHAR))
        ELSE IF c = "[" THEN
            LET j == ClassEnd(pat, i + 1) IN
            IF j > Len(pat)
            THEN Pieces(pat, i + 1, Append(res, Lit("[")))
            ELSE Pieces(pat, j + 1,
                        Append(res, ClassToken(SubSeq(pat, i + 1, j - 1))))
        ELSE Pieces(pat, i + 1, Append(res, Lit(c)))

\* One piece against one character.
PieceTakes(p, ch) ==
    CASE p.t = "ANY" -> TRUE
      [] p.t = "LIT" -> ch = p.c
      [] p.t = "SET" -> IF p.neg THEN ch \notin p.cs ELSE ch \in p.cs
      [] OTHER -> FALSE

\* The run of star-free pieces fixed matches name at position pos.
FixedAt(fixed, name, pos) ==
    /\ pos + Len(fixed) - 1 <= Len(name)
    /\ \A k \in 1..Len(fixed) : PieceTakes(fixed[k], name[pos + k - 1])

\* The index of the next STAR at or after i, or Len(ps) + 1.
RECURSIVE NextStar(_, _)
NextStar(ps, i) ==
    IF i <= Len(ps) /\ ps[i] # STAR THEN NextStar(ps, i + 1) ELSE i

\* The least position >= pos at which fixed matches, 0 when there is none:
\* the atomic group (?>.*?fixed) commits to it.
RECURSIVE LeftMost(_, _, _)
LeftMost(fixed, name, pos) ==
    IF pos + Len(fixed) - 1 > Len(name) THEN 0
    ELSE IF FixedAt(fixed, name, pos) THEN pos
    ELSE LeftMost(fixed, name, pos + 1)

\* translate(), second loop, and the match of the regular expression it
\* builds: fixed pieces at the start, then STAR fixed STAR fixed ..., the
\* last STAR fixed pair as .* fixed \Z.  i is at a STAR or past the end.
RECURSIVE StarMatch(_, _, _, _)
StarMatch(ps, i, name, pos) ==
    IF i > Len(ps) THEN pos = Len(name) + 1
    ELSE IF i = Len(ps) THEN TRUE
    ELSE LET k == NextStar(ps, i + 1)
             fixed == SubSeq(ps, i + 1, k - 1)
         IN  IF k > Len(ps)
             THEN /\ Len(name) + 1 - Len(fixed) >= pos
                  /\ FixedAt(fixed, name, Len(name) + 1 - Len(fixed))
             ELSE LET p == LeftMost(fixed, name, pos) IN
                  /\ p # 0
                  /\ StarMatch(ps, k, name, p + Len(fixed))

fnmatch(name, pat) ==
    LET ps == Pieces(pat, 1, <<>>)
        h == NextStar(ps, 1)
        head == SubSeq(ps, 1, h - 1)
    IN  /\ FixedAt(head, name, 1)
        /\ StarMatch(ps, h, name, Len(head) + 1)


-----------------------------------------------------------------------------
(* src/humcp/config.py *)

FilterConfig(categories, tls) == [categories |-> categories, tools |-> tls]
ToolsConfig(include, exclude) == [include |-> include, exclude |-> exclude]
EmptyConfig == ToolsConfig(FilterConfig(<<>>, <<>>), FilterConfig(<<>>, <<>>))

is_empty(f) == f.categories = <<>> /\ f.tools = <<>>

IsWildcardNoBracket(pattern) ==
    \E i \in 1..Len(pattern) : pattern[i] \in {"*", "?"}

_is_wildcard(pattern) ==
    \E i \in 1..Len(pattern) : pattern[i] \in {"*", "?", "["}

\* One pattern of a filter's tools list against a tool name
\* (the body of _matches_filter's loop).
PatternMatches(name, pattern) ==
    IF _is_wildcard(pattern) THEN fnmatch(name, pattern) ELSE name = pattern

RECURSIVE AnyPattern(_, _, _)
AnyPattern(name, patterns, i) ==
    IF i > Len(patterns) THEN FALSE
    ELSE IF PatternMatches(name, patterns[i]) THEN TRUE
    ELSE AnyPattern(name, patterns, i + 1)

MatchesFilterIntersection(reg, filter_config) ==
    /\ reg.category \in Range(filter_config.categories)
    /\ AnyPattern(reg.name, filter_config.tools, 1)

_matches_filter(reg, filter_config) ==
    IF reg.category \in Range(filter_config.categories) THEN TRUE
    ELSE AnyPattern(reg.name, filter_config.tools, 1)

\* The error and warning messages, as the facts they are formatted from.
Problem(section, field, item) == [section |-> section, field |-> field, item |-> item]

RECURSIVE CategoryErrors(_, _, _, _)
CategoryErrors(section_name, cats, i, available_categories) ==
    IF i > Len(cats) THEN <<>>
    ELSE (IF cats[i] \notin available_categories
          THEN <<Problem(section_name, "categories", cats[i])>>
          ELSE <<>>)
         \o CategoryErrors(section_name, cats, i + 1, available_categories)

RECURSIVE ToolErrors(_, _, _, _)
ToolErrors(section_name, pats, i, available_tools) ==
    IF i > Len(pats) THEN <<>>
    ELSE (IF ~_is_wildcard(pats[i]) /\ pats[i] \notin available_tools
          THEN <<Problem(section_name, "tools", pats[i])>>
          ELSE <<>>)
         \o ToolErrors(section_name, pats, i + 1, available_tools)

RECURSIVE ToolWarnings(_, _, _, _)
ToolWarnings(section_name, pats, i, available_tools) ==
    IF i > Len(pats) THEN <<>>
    ELSE (IF /\ _is_wildcard(pats[i])
             /\ {t \in available_tools : fnmatch(t, pats[i])} = {}
          THEN <<Problem(section_name, "tools", pats[i])>>
          ELSE <<>>)
         \o ToolWarnings(section_name, pats, i + 1, available_tools)

ConfigValidationResult(errors, warnings) ==
    [valid |-> Len(errors) = 0, warnings |-> warnings, errors |-> errors]

ValidateFailFast(cfg, available_categories, available_tools) ==
    LET errors ==
            CategoryErrors("include", cfg.include.categories, 1, available_categories)
            \o CategoryErrors("exclude", cfg.exclude.categories, 1, available_categories)
            \o ToolErrors("include", cfg.include.tools, 1, available_tools)
            \o ToolErrors("exclude", cfg.exclude.tools, 1, available_tools)
        warnings ==
            ToolWarnings("include", cfg.include.tools, 1, available_tools)
            \o ToolWarnings("exclude", cfg.exclude.tools, 1, available_tools)
    IN  ConfigValidationResult(IF errors = <<>> THEN <<>> ELSE <<Head(errors)>>,
                               warnings)

validate_config(cfg, available_categories, available_tools) ==
    LET errors ==
            CategoryErrors("include", cfg.include.categories, 1, available_categories)
            \o CategoryErrors("exclude", cfg.exclude.categories, 1, available_categories)
            \o ToolErrors("include", cfg.include.tools, 1, available_tools)
            \o ToolErrors("exclude", cfg.exclude.tools, 1, available_tools)
        warnings ==
            ToolWarnings("include", cfg.include.tools, 1, available_tools)
            \o ToolWarnings("exclude", cfg.exclude.tools, 1, available_tools)
    IN  ConfigValidationResult(errors, warnings)

\* [reg for reg in regs if keep(reg)]
RECURSIVE Comprehension(_, _, _, _)
Comprehension(regs, i, f, wanted) ==
    IF i > Len(regs) THEN <<>>
    ELSE (IF _matches_filter(regs[i], f) = wanted THEN <<regs[i]>> ELSE <<>>)
         \o Comprehension(regs, i + 1, f, wanted)

Returned(v) == [status |-> "returned", value |-> v]
Raised(exc, detail) == [status |-> "raised", exc |-> exc, detail |-> detail]

\* Step 1 of filter_tools: an empty include keeps every tool.
IncludeKeepsOnlyNamed(cfg, tls) == Comprehension(tls, 1, cfg.include, TRUE)

ApplyInclude(cfg, tls) ==
    IF is_empty(cfg.include) THEN tls
    ELSE Comprehension(tls, 1, cfg.include, TRUE)

\* Step 2 of filter_tools: a non-empty exclude drops what it names.
ExcludeByCategoryOnly(cfg, included) ==
    IF cfg.exclude.categories # <<>>
    THEN Comprehension(included, 1, cfg.exclude, FALSE)
    ELSE included

ApplyExclude(cfg, included) ==
    IF ~is_empty(cfg.exclude)
    THEN Comprehension(included, 1, cfg.exclude, FALSE)
    ELSE included

filter_tools(cfg, tls, validate) ==
    IF tls = <<>> THEN Returned(<<>>)
    ELSE LET result == validate_config(cfg,
                                       {tls[i].category : i \in 1..Len(tls)},
                                       {tls[i].name : i \in 1..Len(tls)})
         IN  IF validate /\ ~result.valid
             THEN Raised("ValueError", result.errors)
             ELSE Returned(ApplyExclude(cfg, ApplyInclude(cfg, tls)))

-----------------------------------------------------------------------------
(* State shared by the specifications *)

NoRest == [routes |-> <<>>, categories |-> <<>>, tool_lookup |-> <<>>, total_tools |-> 0]
NoCall == [fn |-> "none"]
NoRet == [status |-> "none"]

\* The process before anything is imported.
Fresh ==
    /\ TOOL_REGISTRY = <<>>
    /\ mcp = {}
    /\ tools = <<>>
    /\ config = EmptyConfig
    /\ filtered = <<>>
    /\ rest = NoRest
    /\ raised = "none"
    /\ last = NoCall

appVars == <<modules, TOOL_REGISTRY, mcp, tools, config, filtered, rest, raised, last>>

-----------------------------------------------------------------------------
(* Inputs of the function-level specifications *)

CfgCategories == {<<"x">>, <<"y">>, <<"z">>}
CfgPatterns == {<<"a">>, <<"b">>, <<"a", "*">>, <<"?", "a">>, <<"[", "b", "]">>}
ToolNames == {<<"a">>, <<"b", "a">>}
ToolCategories == {<<"x">>, <<"y">>}

Lists(S, n) == [1..n -> S]

\* Every config with at most n entries in its four lists together.
Configs(n) ==
    UNION {
        {ToolsConfig(FilterConfig(ic, it), FilterConfig(ec, et)) :
            ic \in Lists(CfgCategories, l[1]), it \in Lists(CfgPatterns, l[2]),
            ec \in Lists(CfgCategories, l[3]), et \in Lists(CfgPatterns, l[4])} :
        l \in {m \in [1..4 -> 0..n] : m[1] + m[2] + m[3] + m[4] <= n}}

RegisteredTool(name, category, func) ==
    [name |-> name, category |-> category, func |-> func]

ToolLists(n) ==
    UNION {[1..k -> {RegisteredTool(nm, c, 0) : nm \in ToolNames, c \in ToolCategories}] :
           k \in 0..n}

-----------------------------------------------------------------------------
(* SpecMatch: one pattern of a filter against one tool name *)

InitMatch ==
    /\ Fresh
    /\ modules = <<>>
    /\ pc = "call"
    /\ args \in [pattern : Strs(PatChars, MaxPatLen), name : Strs(NameChars, MaxNameLen)]
    /\ ret = NoRet

MatchCall ==
    /\ pc = "call"
    /\ pc' = "done"
    /\ ret' = Returned(PatternMatches(args.name, args.pattern))
    /\ UNCHANGED <<appVars, args>>

NextMatch == MatchCall

SpecMatch == InitMatch /\ [][NextMatch]_vars

-----------------------------------------------------------------------------
(* SpecValidate: validate_config on a config and the available names *)

InitValidate ==
    /\ Fresh
    /\ modules = <<>>
    /\ pc = "call"
    /\ args \in [config : Configs(MaxEntries),
                 available_categories : SUBSET ToolCategories,
                 available_tools : SUBSET ToolNames]
    /\ ret = NoRet

ValidateCall ==
    /\ pc = "call"
    /\ pc' = "done"
    /\ ret' = Returned(validate_config(args.config, args.available_categories,
                                       args.available_tools))
    /\ UNCHANGED <<appVars, args>>

NextValidate == ValidateCall

SpecValidate == InitValidate /\ [][NextValidate]_vars

-----------------------------------------------------------------------------
(* SpecFilter: filter_tools on a config and a tool list *)

InitFilter ==
    /\ Fresh
    /\ modules = <<>>
    /\ pc = "call"
    /\ args \in [config : Configs(MaxEntries), tools : ToolLists(MaxTools),
                 validate : BOOLEAN]
    /\ ret = NoRet

FilterCall ==
    /\ pc = "call"
    /\ pc' = "done"
    /\ ret' = filter_tools(args.config, args.tools, args.validate)
    /\ UNCHANGED <<appVars, args>>

NextFilter == FilterCall

SpecFilter == InitFilter /\ [][NextFilter]_vars

-----------------------------------------------------------------------------
(* create_app: import of the tool modules, discovery, config, filter, routes *)

MaxFuncs == 3       \* most functions the tool modules define, all together

\* The tool files under the tools directory, in sorted order of their path.
ModuleFiles == << [dir |-> <<"x">>, stem |-> <<"m">>],
                  [dir |-> <<"y">>, stem |-> <<"n">>] >>

\* The function names a module may define, in the order inspect.getmembers
\* lists them (sorted by name).
FuncNames == << <<"a">>, <<"b">> >>

NameArgs == {None, <<>>, <<"a">>, <<"b", "a">>}
CategoryArgs == {None, <<"x">>}

Uncategorized == <<"u", "n", "c", "a", "t", "e", "g", "o", "r", "i", "z", "e", "d">>

ToolMetadata(name, category) == [name |-> name, category |-> category]
NoMetadata == ToolMetadata(None, None)

ToolRegistration(name, category, func) ==
    [name |-> name, category |-> category, func |-> func]

NumFuncs == Cardinality(UNION {{<<k, f.fn>> : f \in modules[k].funcs} :
                               k \in 1..Len(modules)})

Defined(k, fname) == \E f \in modules[k].funcs : f.fn = fname

\* A decorated function already carries the name.
Marked(name) ==
    \E k \in 1..Len(modules) : \E f \in modules[k].funcs :
        f.is_tool /\ f.meta.name = name

\* _load_modules, one file: the module object exists before its body runs.
ImportModule ==
    /\ pc = "import"
    /\ Len(modules) < Len(ModuleFiles)
    /\ modules' = Append(modules,
                         [dir |-> ModuleFiles[Len(modules) + 1].dir,
                          stem |-> ModuleFiles[Len(modules) + 1].stem,
                          funcs |-> {}])
    /\ raised' = "none"
    /\ last' = [fn |-> "import"]
    /\ UNCHANGED <<TOOL_REGISTRY, pc, mcp, tools, config, filtered, rest, args, ret>>

\* src/humcp/decorator.py, tool(tool_name, category)(func): name and category
\* are resolved and stored on the function; nothing else is read or written.
ResolveName(tool_name, fname) == IF tool_name # None THEN tool_name ELSE fname

ResolveCategory(category, dir) ==
    IF category # None THEN category
    ELSE IF dir # None THEN dir
    ELSE Uncategorized

Decorate(fname, tool_name, category) ==
    /\ pc = "import"
    /\ modules # <<>>
    /\ NumFuncs < MaxFuncs
    /\ ~Defined(Len(modules), fname)
    /\ LET m == Len(modules)
           resolved_name == ResolveName(tool_name, fname)
           resolved_category == ResolveCategory(category, modules[m].dir)
       IN  /\ modules' = [modules EXCEPT ![m].funcs = @ \cup
                            {[fn |-> fname, id |-> <<m, fname>>, is_tool |-> TRUE,
                              meta |-> ToolMetadata(resolved_name, resolved_category)]}]
           /\ last' = [fn |-> "tool", name |-> resolved_name,
                       duplicate |-> Marked(resolved_name),
                       tool_name |-> tool_name, category |-> category,
                       func |-> fname]
    /\ raised' = "none"
    /\ UNCHANGED <<TOOL_REGISTRY, pc, mcp, tools, config, filtered, rest, args, ret>>

\* A module defines a function that is not a tool.
DefinePlain(fname) ==
    /\ pc = "import"
    /\ modules # <<>>
    /\ NumFuncs < MaxFuncs
    /\ ~Defined(Len(modules), fname)
    /\ modules' = [modules EXCEPT ![Len(modules)].funcs = @ \cup
                     {[fn |-> fname, id |-> <<Len(modules), fname>>, is_tool |-> FALSE,
                       meta |-> NoMetadata]}]
    /\ raised' = "none"
    /\ last' = [fn |-> "def"]
    /\ UNCHANGED <<TOOL_REGISTRY, pc, mcp, tools, config, filtered, rest, args, ret>>

\* src/tools/__init__.py, tool(name, category)(func): the registration is
\* appended to TOOL_REGISTRY.  The registry of src/humcp/registry.py holds
\* records of the same type under the same name and no function of
\* src/humcp appends to it, so the model keeps the two as one list.
RegistryTool(fname, name, category) ==
    /\ pc = "import"
    /\ modules # <<>>
    /\ NumFuncs < MaxFuncs
    /\ ~Defined(Len(modules), fname)
    /\ LET m == Len(modules)
           tool_name == IF name \in {None, <<>>} THEN fname ELSE name
           tool_category == IF category \in {None, <<>>} THEN modules[m].stem
                            ELSE category
       IN  /\ TOOL_REGISTRY' = Append(TOOL_REGISTRY,
                                      ToolRegistration(tool_name, tool_category, <<m, fname>>))
           /\ modules' = [modules EXCEPT ![m].funcs = @ \cup
                            {[fn |-> fname, id |-> <<m, fname>>, is_tool |-> FALSE,
                              meta |-> NoMetadata]}]
           /\ last' = [fn |-> "registry_tool", name |-> tool_name,
                       duplicate |-> \E i \in 1..Len(TOOL_REGISTRY) :
                                        TOOL_REGISTRY[i].name = tool_name]
    /\ raised' = "none"
    /\ UNCHANGED <<pc, mcp, tools, config, filtered, rest, args, ret>>

\* inspect.getmembers(module, inspect.isfunction): sorted by name.
RECURSIVE Members(_, _)
Members(module, i) ==
    IF i > Len(FuncNames) THEN <<>>
    ELSE LET here == {f \in module.funcs : f.fn = FuncNames[i]} IN
         (IF here = {} THEN <<>> ELSE <<CHOOSE f \in here : TRUE>>)
         \o Members(module, i + 1)

RECURSIVE AllMembers(_, _)
AllMembers(mods, k) ==
    IF k > Len(mods) THEN <<>> ELSE Members(mods[k], 1) \o AllMembers(mods, k + 1)

get_tool_name(f) == IF f.is_tool THEN f.meta.name ELSE f.fn
get_tool_category(f) == IF f.is_tool THEN f.meta.category ELSE Uncategorized

\* The loop of _discover_and_register over the functions of all modules.
RECURSIVE Discover(_, _, _, _)
Discover(members, i, seen_names, found) ==
    IF i > Len(members) THEN found
    ELSE IF ~members[i].is_tool THEN Discover(members, i + 1, seen_names, found)
    ELSE IF get_tool_name(members[i]) \in seen_names
         THEN Discover(members, i + 1, seen_names, found)
    ELSE Discover(members, i + 1, seen_names \cup {get_tool_name(members[i])},
                  Append(found, RegisteredTool(get_tool_name(members[i]),
                                               get_tool_category(members[i]),
                                               members[i].id)))

_discover_and_register(mods) == Discover(AllMembers(mods, 1), 1, {}, <<>>)

\* create_app up to and including _discover_and_register: every tool found
\* is registered with the FastMCP server under its name.
DiscoverAndRegister ==
    /\ pc = "import"
    /\ pc' = "discovered"
    /\ tools' = _discover_and_register(modules)
    /\ mcp' = {[name |-> tools'[i].name, fn |-> tools'[i].func] : i \in 1..Len(tools')}
    /\ raised' = "none"
    /\ last' = [fn |-> "_discover_and_register"]
    /\ UNCHANGED <<modules, TOOL_REGISTRY, config, filtered, rest, args, ret>>

\* load_config: the file is missing, empty, malformed, or holds a mapping
\* whose sections may be null.
MaxFileEntries == 1 \* most entries of the config file create_app loads

\* A section that is null or absent in the file reads as null lists.
NullList == <<None>>
NullSection == FilterConfig(NullList, NullList)

ConfigFilesOf(n) ==
    {[kind |-> "missing"], [kind |-> "empty"], [kind |-> "malformed"]}
    \cup {[kind |-> "data", include |-> c.include, exclude |-> c.exclude] :
            c \in Configs(n)}
    \cup {[kind |-> "data", include |-> NullSection, exclude |-> NullSection]}

ConfigFiles == ConfigFilesOf(MaxFileEntries)

handle_none_values(data) ==
    LET lists(section) ==
            FilterConfig(IF section.categories = NullList THEN <<>> ELSE section.categories,
                         IF section.tools = NullList THEN <<>> ELSE section.tools)
    IN  ToolsConfig(lists(data.include), lists(data.exclude))

\* load_config with the parse error swallowed.
LoadConfigFallsBack(file) ==
    IF file.kind \in {"missing", "malformed", "empty"} THEN Returned(EmptyConfig)
    ELSE Returned(handle_none_values(file))

load_config(file) ==
    IF file.kind = "missing" THEN Returned(EmptyConfig)
    ELSE IF file.kind = "malformed" THEN Raised("ValueError", <<>>)
    ELSE IF file.kind = "empty" THEN Returned(EmptyConfig)
    ELSE Returned(handle_none_values(file))

LoadConfigFrom(files) ==
    /\ pc = "discovered"
    /\ \E file \in files :
        LET r == load_config(file) IN
        /\ pc' = IF r.status = "raised" THEN "failed" ELSE "loaded"
        /\ raised' = IF r.status = "raised" THEN r.exc ELSE "none"
        /\ config' = IF r.status = "raised" THEN config ELSE r.value
        /\ last' = [fn |-> "load_config", kind |-> file.kind]
    /\ UNCHANGED <<modules, TOOL_REGISTRY, mcp, tools, filtered, rest, args, ret>>

LoadConfig == LoadConfigFrom(ConfigFiles)

\* SpecLoad: load_config on one config file.
InitLoad ==
    /\ Fresh
    /\ modules = <<>>
    /\ pc = "call"
    /\ args \in [file : ConfigFilesOf(MaxEntries)]
    /\ ret = NoRet

LoadCall ==
    /\ pc = "call"
    /\ pc' = "done"
    /\ ret' = load_config(args.file)
    /\ UNCHANGED <<appVars, args>>

NextLoad == LoadCall

SpecLoad == InitLoad /\ [][NextLoad]_vars

\* filtered = filter_tools(config, tools, validate=True)
FilterTools ==
    /\ pc = "loaded"
    /\ LET r == filter_tools(config, tools, TRUE) IN
        /\ pc' = IF r.status = "raised" THEN "failed" ELSE "filtered"
        /\ raised' = IF r.status = "raised" THEN r.exc ELSE "none"
        /\ filtered' = IF r.status = "raised" THEN filtered ELSE r.value
    /\ last' = [fn |-> "filter_tools"]
    /\ UNCHANGED <<modules, TOOL_REGISTRY, mcp, tools, config, rest, args, ret>>

\* src/humcp/routes.py: the routes and the lookup structures are built from
\* TOOL_REGISTRY, once.
ToolSummary(reg) == [name |-> reg.name, endpoint |-> <<"/", "tools", "/">> \o reg.name]

RECURSIVE CategoryTools(_, _, _)
CategoryTools(registry, i, category) ==
    IF i > Len(registry) THEN <<>>
    ELSE (IF registry[i].category = category THEN <<ToolSummary(registry[i])>> ELSE <<>>)
         \o CategoryTools(registry, i + 1, category)

_build_categories(registry) ==
    [c \in {registry[i].category : i \in 1..Len(registry)} |->
        CategoryTools(registry, 1, c)]

\* A dict comprehension: of two registrations under one key the later stays.
_build_tool_lookup(registry) ==
    [key \in {<<registry[i].category, registry[i].name>> : i \in 1..Len(registry)} |->
        LET at == {i \in 1..Len(registry) :
                      <<registry[i].category, registry[i].name>> = key}
        IN  registry[CHOOSE i \in at : \A j \in at : j <= i]]

register_routes(registry) ==
    [routes |-> registry,
     categories |-> _build_categories(registry),
     tool_lookup |-> _build_tool_lookup(registry),
     total_tools |-> Len(registry)]

RegisterRoutes ==
    /\ pc = "filtered"
    /\ pc' = "serving"
    /\ rest' = register_routes(TOOL_REGISTRY)
    /\ raised' = "none"
    /\ last' = [fn |-> "register_routes"]
    /\ UNCHANGED <<modules, TOOL_REGISTRY, mcp, tools, config, filtered, args, ret>>

Init ==
    /\ Fresh
    /\ modules = <<>>
    /\ pc = "import"
    /\ args = NoCall
    /\ ret = NoRet

Next ==
    \/ ImportModule
    \/ \E fname \in Range(FuncNames), name \in NameArgs, category \in CategoryArgs :
           \/ Decorate(fname, name, category)
           \/ RegistryTool(fname, name, category)
    \/ \E fname \in Range(FuncNames) : DefinePlain(fname)
    \/ DiscoverAndRegister
    \/ LoadConfig
    \/ FilterTools
    \/ RegisterRoutes

Spec == Init /\ [][Next]_vars

-----------------------------------------------------------------------------
(* SpecSchema: _get_schema_from_func on the signature of a callable *)

MaxParams == 2      \* most parameters of a callable

ParamNames == <<"p", "q", "r">>

\* An annotation is a class (args empty) or a subscripted or union type,
\* whose __args__ are classes: list[int] is Annotation("list", <<"int">>),
\* str | None is Annotation("Union", <<"str", "NoneType">>).
Annotation(origin, type_args) == [origin |-> origin, args |-> type_args]

Empty == Annotation("empty", <<>>)          \* inspect.Parameter.empty

Classes == {"str", "int", "float", "bool", "list", "dict", "Custom"}

Annotations ==
    {Empty, Annotation("NoneType", <<>>)}
    \cup {Annotation(c, <<>>) : c \in Classes}
    \cup {Annotation("Union", <<c, "NoneType">>) : c \in {"str", "int", "Custom"}}
    \cup {Annotation("Union", <<"NoneType", "dict">>)}
    \cup {Annotation("list", <<"int">>), Annotation("list", <<"Custom">>),
          Annotation("dict", <<"str", "int">>)}

\* A parameter default: none, None, or some other value.
Defaults == {"empty", "None", "value"}

Parameter(name, annotation, default) ==
    [name |-> name, annotation |-> annotation, default |-> default]

\* inspect.signature(func).parameters: distinct names, in declaration order.
Signature(k, pa) ==
    [i \in 1..k |-> Parameter(ParamNames[i], pa[i].annotation, pa[i].default)]

type_map(key) ==
    CASE key = "str" -> "string"
      [] key = "int" -> "integer"
      [] key = "float" -> "number"
      [] key = "bool" -> "boolean"
      [] key = "list" -> "array"
      [] key = "dict" -> "object"
      [] OTHER -> "string"

\* next((a for a in args if a is not type(None)), ann)
RECURSIVE FirstNotNone(_, _, _)
FirstNotNone(type_args, i, ann) ==
    IF i > Len(type_args) THEN ann
    ELSE IF type_args[i] # "NoneType" THEN type_args[i]
    ELSE FirstNotNone(type_args, i + 1, ann)

\* The key looked up in type_map: a class is its own key, a subscripted
\* type that keeps itself as the key is no class of the map.
json_type(ann) ==
    type_map(IF ann.args # <<>> THEN FirstNotNone(ann.args, 1, "alias")
             ELSE ann.origin)

\* The parameters the loop gives a property to.
InSchema(param) ==
    /\ param.annotation # Empty
    /\ param.annotation # Annotation("NoneType", <<>>)

RequiredIfDefaultIsNotNone(param) == param.default # "value"

IsRequired(param) == param.default = "empty"

_get_schema_from_func(sig) ==
    [type |-> "object",
     properties |-> [name \in {sig[i].name : i \in {j \in 1..Len(sig) : InSchema(sig[j])}} |->
                        json_type((CHOOSE prm \in Range(sig) : prm.name = name).annotation)],
     required |-> SelectSeq([i \in 1..Len(sig) |-> sig[i].name],
                            LAMBDA name : \E prm \in Range(sig) :
                                /\ prm.name = name
                                /\ InSchema(prm)
                                /\ IsRequired(prm))]

InitSchema ==
    /\ Fresh
    /\ modules = <<>>
    /\ pc = "call"
    /\ \E k \in 0..MaxParams :
          \E pa \in [1..k -> [annotation : Annotations, default : Defaults]] :
              args = [sig |-> Signature(k, pa)]
    /\ ret = NoRet

SchemaCall ==
    /\ pc = "call"
    /\ pc' = "done"
    /\ ret' = Returned(_get_schema_from_func(args.sig))
    /\ UNCHANGED <<appVars, args>>

NextSchema == SchemaCall

SpecSchema == InitSchema /\ [][NextSchema]_vars

-----------------------------------------------------------------------------
(* SpecModel: _create_model on a schema, and the validation of a request   *)
(* body against the model it built.  A JSON value is named by a sample of  *)
(* its kind; the samples are chosen so that pydantic's lax mode either     *)
(* takes the value as it is or rejects it.                                 *)

FieldNames == {ParamNames[i] : i \in 1..MaxParams}

JsonNull == "null"
JsonValues == {"text", "7", "[]"}
Absent == "absent"                      \* the key is not in the request body

Bodies == [FieldNames -> JsonValues \cup {JsonNull, Absent}]

\* The "type" of a property schema: a JSON type, a word that is none, or
\* no "type" key at all.
PropertyTypes ==
    {"string", "integer", "number", "boolean", "array", "object", "custom", "missing"}

ObjectSchema(properties, required) ==
    [type |-> "object", properties |-> properties, required |-> required]

\* The names of a set as a list, in the order of ParamNames.
NameList(names) == SelectSeq(ParamNames, LAMBDA name : name \in names)

Schemas ==
    {[type |-> "string", properties |-> <<>>, required |-> <<>>]}
    \cup UNION {{ObjectSchema(props, NameList(required)) :
                  props \in [names -> PropertyTypes], required \in SUBSET FieldNames} :
                names \in SUBSET FieldNames}

\* type_map.get(fschema.get("type"), Any)
ftype(schema_type) ==
    CASE schema_type = "string" -> "str"
      [] schema_type = "integer" -> "int"
      [] schema_type = "number" -> "float"
      [] schema_type = "boolean" -> "bool"
      [] schema_type = "array" -> "list"
      [] schema_type = "object" -> "dict"
      [] OTHER -> "Any"

\* (ftype, ...) for a required field, (ftype | None, None) for the others;
\* a description changes neither.
FieldInfo(type, required) ==
    [type |-> type, nullable |-> ~required, required |-> required]

_create_model(schema) ==
    IF schema.type # "object" THEN [fname \in {"value"} |-> FieldInfo("Any", TRUE)]
    ELSE [fname \in DOMAIN schema.properties |->
             FieldInfo(ftype(schema.properties[fname]),
                       fname \in Range(schema.required))]

\* What pydantic takes for a field of the type.
TypeAccepts(type, value) ==
    CASE type = "str" -> value = "text"
      [] type = "int" -> value = "7"
      [] type = "float" -> value = "7"
      [] type = "bool" -> FALSE
      [] type = "list" -> value = "[]"
      [] type = "dict" -> FALSE
      [] type = "Any" -> TRUE

Sent(body, fname) == IF fname \in DOMAIN body THEN body[fname] ELSE Absent

FieldError(field, value) ==
    IF value = Absent THEN field.required
    ELSE IF value = JsonNull THEN ~field.nullable /\ field.type # "Any"
    ELSE ~TypeAccepts(field.type, value)

\* model_validate with a sentinel, not None, as the default of a field.
ModelValidateKeepsAbsent(model, body) ==
    LET errors == {fname \in DOMAIN model : FieldError(model[fname], Sent(body, fname))}
    IN  IF errors # {} THEN Raised("ValidationError", errors)
        ELSE Returned([fname \in DOMAIN model |-> Sent(body, fname)])

\* InputModel.model_validate(body): keys that are no field are ignored, a
\* field left out takes its default None.
model_validate(model, body) ==
    LET errors == {fname \in DOMAIN model : FieldError(model[fname], Sent(body, fname))}
    IN  IF errors # {} THEN Raised("ValidationError", errors)
        ELSE Returned([fname \in DOMAIN model |->
                          IF Sent(body, fname) = Absent THEN JsonNull
                          ELSE Sent(body, fname)])

InitModel ==
    /\ Fresh
    /\ modules = <<>>
    /\ pc = "call"
    /\ args \in [schema : Schemas, body : Bodies]
    /\ ret = NoRet

ModelCall ==
    /\ pc = "call"
    /\ pc' = "done"
    /\ ret' = model_validate(_create_model(args.schema), args.body)
    /\ UNCHANGED <<appVars, args>>

NextModel == ModelCall

SpecModel == InitModel /\ [][NextModel]_vars

-----------------------------------------------------------------------------
(* SpecExecute: an app whose routes are registered serves POST requests to *)
(* /tools/{name}.  The callable is the environment: it returns a value or  *)
(* raises, as the request's behaviour says.                                *)

\* What the body of a callable does when it is run.
Behaviour(kind, exc, status, text) ==
    [kind |-> kind, exc |-> exc, status |-> status, text |-> text]

Returns(value) == Behaviour("returns", "none", 0, value)
Raises(exc, message) == Behaviour("raises", exc, 0, message)
RaisesHTTP(status, detail) == Behaviour("raises", "HTTPException", status, detail)

ReturnValues == {"v1", "v2"}
Messages == {"m1", "m2"}

Behaviours ==
    {Returns(v) : v \in ReturnValues}
    \cup {Raises("ValueError", m) : m \in Messages}
    \cup {RaisesHTTP(404, "gone")}

\* The signatures of the served callables.
ExecSignatures ==
    { <<>>,
      <<Parameter("p", Annotation("int", <<>>), "empty")>>,
      <<Parameter("p", Annotation("int", <<>>), "empty"),
        Parameter("q", Annotation("str", <<>>), "value")>>,
      <<Parameter("p", Annotation("Union", <<"str", "NoneType">>), "None"),
        Parameter("q", Empty, "value")>> }

Callables == [is_async : BOOLEAN, sig : ExecSignatures]

ExecNames == << <<"a">>, <<"b">> >>

\* One tool, or two tools of different names.
ExecRegistries ==
    {<<ToolRegistration(ExecNames[1], <<"x">>, f)>> : f \in Callables}
    \cup {<<ToolRegistration(ExecNames[1], <<"x">>, f),
            ToolRegistration(ExecNames[2], <<"y">>, g)>> :
            f \in Callables, g \in {h \in Callables : Len(h.sig) = 1}}

Response(status, body) == [status |-> status, body |-> body]

\* data.model_dump(exclude_none=...)
ModelDumpKeepsNone(data, exclude_none) == data

model_dump(data, exclude_none) ==
    [fname \in {f \in DOMAIN data : ~exclude_none \/ data[f] # JsonNull} |-> data[fname]]

\* reg.func(**params): the call binds the keyword arguments to the
\* signature, then a synchronous callable runs at once and an asynchronous
\* one runs when awaited.  A parameter without default that gets no
\* argument is a TypeError and the body does not run.
call(func, params, behaviour) ==
    IF \E i \in 1..Len(func.sig) :
          func.sig[i].default = "empty" /\ func.sig[i].name \notin DOMAIN params
    THEN [invoked |-> <<>>, outcome |-> Raises("TypeError", "missing argument")]
    ELSE [invoked |-> <<params>>, outcome |-> behaviour]

\* await reg.func(**params): what a synchronous callable returned is not
\* awaitable.
await(func, outcome) ==
    IF outcome.kind = "returns" /\ ~func.is_async
    THEN Raises("TypeError", "object can't be used in 'await' expression")
    ELSE outcome

\* The endpoint with the clause "except HTTPException: raise" left out.
EndpointWrapsEverything(reg, data, behaviour) ==
    LET c == call(reg.func, model_dump(data, TRUE), behaviour)
        awaited == await(reg.func, c.outcome)
    IN  [calls |-> c.invoked,
         response |->
            IF awaited.kind = "returns"
            THEN Response(200, [result |-> awaited.text])
            ELSE Response(500, [detail |-> <<"Tool failed: ", awaited.text>>])]

endpoint(reg, data, behaviour) ==
    LET params == model_dump(data, TRUE)
        c == call(reg.func, params, behaviour)
        awaited == await(reg.func, c.outcome)
    IN  [calls |-> c.invoked,
         response |->
            IF awaited.kind = "returns"
            THEN Response(200, [result |-> awaited.text])
            ELSE IF awaited.exc = "HTTPException"
            THEN Response(awaited.status, [detail |-> <<awaited.text>>])
            ELSE Response(500, [detail |-> <<"Tool failed: ", awaited.text>>])]

\* InputModel of _add_tool_route.
InputModel(reg) == _create_model(_get_schema_from_func(reg.func.sig))

\* POST /tools/{name}: the first route of that name takes the request; a
\* body the input model rejects is answered with 422 and the endpoint is
\* not entered.
handle_post(routes, name, body, behaviour) ==
    LET at == {i \in 1..Len(routes) : routes[i].name = name} IN
    IF at = {} THEN [calls |-> <<>>, response |-> Response(404, [detail |-> <<"Not Found">>])]
    ELSE LET reg == routes[CHOOSE i \in at : \A j \in at : i <= j]
             data == model_validate(InputModel(reg), body)
         IN  IF data.status = "raised"
             THEN [calls |-> <<>>, response |-> Response(422, [detail |-> <<"invalid">>])]
             ELSE endpoint(reg, data.value, behaviour)

ExecBodies == [{"p", "q"} -> {"text", "7", JsonNull, Absent}]

InitExecute ==
    /\ TOOL_REGISTRY \in ExecRegistries
    /\ rest = register_routes(TOOL_REGISTRY)
    /\ mcp = {}
    /\ tools = <<>>
    /\ config = EmptyConfig
    /\ filtered = <<>>
    /\ raised = "none"
    /\ last = NoCall
    /\ modules = <<>>
    /\ pc = "serving"
    /\ args = NoCall
    /\ ret = NoRet

Post(name, body, behaviour) ==
    /\ pc = "serving"
    /\ LET r == handle_post(rest.routes, name, body, behaviour) IN
        /\ ret' = r.response
        /\ last' = [fn |-> "endpoint", calls |-> r.calls]
    /\ args' = [fn |-> "POST", name |-> name, body |-> body, behaviour |-> behaviour]
    /\ UNCHANGED <<modules, TOOL_REGISTRY, pc, mcp, tools, config, filtered, rest, raised>>

NextExecute ==
    \E name \in Range(ExecNames), body \in ExecBodies, behaviour \in Behaviours :
        Post(name, body, behaviour)

SpecExecute == InitExecute /\ [][NextExecute]_vars

-----------------------------------------------------------------------------
(* SpecPascal: _pascal on a tool name (sanitize_model_name of               *)
(* src/adapter/models.py is the same function)                             *)

MaxToolNameLen == 3     \* longest tool name handed to _pascal

PascalChars == {"a", "B", "1", "_", "-", ".", " ", "/"}

Letters == {"a", "b", "A", "B"}
Digits == {"1"}

upper(c) == CASE c = "a" -> "A" [] c = "b" -> "B" [] OTHER -> c
lower(c) == CASE c = "A" -> "a" [] c = "B" -> "b" [] OTHER -> c

\* name.replace("_", " ").replace("-", " ").replace(".", " ")
ReplaceSeparators(name) ==
    [i \in 1..Len(name) |-> IF name[i] \in {"_", "-", "."} THEN " " ELSE name[i]]

\* w.capitalize() for the word that begins at index i, joined to the words
\* after it: the first character of a word in upper case, the others in
\* lower case, the blanks between words dropped.
RECURSIVE JoinCapitalized(_, _)
JoinCapitalized(name, i) ==
    IF i > Len(name) THEN <<>>
    ELSE IF name[i] = " " THEN JoinCapitalized(name, i + 1)
    ELSE <<(IF i = 1 \/ name[i - 1] = " " THEN upper(name[i]) ELSE lower(name[i]))>>
         \o JoinCapitalized(name, i + 1)

ModelPrefix == <<"M", "o", "d", "e", "l">>

_pascal(name) ==
    LET joined == JoinCapitalized(ReplaceSeparators(name), 1) IN
    IF joined # <<>> /\ joined[1] \notin Letters THEN ModelPrefix \o joined
    ELSE IF joined # <<>> THEN joined
    ELSE ModelPrefix

InitPascal ==
    /\ Fresh
    /\ modules = <<>>
    /\ pc = "call"
    /\ \E name \in Strs(PascalChars, MaxToolNameLen) : args = [tool_name |-> name]
    /\ ret = NoRet

PascalCall ==
    /\ pc = "call"
    /\ pc' = "done"
    /\ ret' = Returned(_pascal(args.tool_name))
    /\ UNCHANGED <<appVars, args>>

NextPascal == PascalCall

SpecPascal == InitPascal /\ [][NextPascal]_vars

-----------------------------------------------------------------------------
(* SpecAdapter: the info routes of src/adapter/routes.py, RouteGenerator,  *)
(* over the tools that load_tools fetched from the MCP client              *)

MaxAdapterTools == 2    \* most tools the MCP client lists
MaxAdapterNameLen == 3  \* longest tool name made of AdapterChars

AdapterChars == {"a", "/"}

AdapterNames ==
    (Strs(AdapterChars, MaxAdapterNameLen) \ {<<>>})
    \cup {Uncategorized \o <<"/", "a">>}

\* self.tools: a dict keyed by tool name, in the order the client listed.
AdapterTools ==
    UNION {{t \in [1..k -> AdapterNames] : \A i, j \in 1..k : t[i] = t[j] => i = j} :
           k \in 0..MaxAdapterTools}

\* Index of the first "/" of a name at or after i, 0 when there is none.
RECURSIVE FirstSlash(_, _)
FirstSlash(name, i) ==
    IF i > Len(name) THEN 0
    ELSE IF name[i] = "/" THEN i
    ELSE FirstSlash(name, i + 1)

\* One entry of _get_tool_categories for a tool name:
\* parts = tool_name.split("/"), category = parts[0] and
\* sub_tool = "/".join(parts[1:]) when there are two parts or more.
CategoryEntry(tool_name) ==
    LET slash == FirstSlash(tool_name, 1) IN
    IF slash > 0
    THEN [category |-> SubSeq(tool_name, 1, slash - 1),
          name |-> SubSeq(tool_name, slash + 1, Len(tool_name)),
          full_name |-> tool_name]
    ELSE [category |-> Uncategorized, name |-> tool_name, full_name |-> tool_name]

\* _get_tool_categories: the entries of every tool, in the order of
\* self.tools; the entries of one category are those with that category.
_get_tool_categories(tls) == [i \in 1..Len(tls) |-> CategoryEntry(tls[i])]

\* The route {prefix}/{category}/{tool_name:path} on the path c/n: the
\* category is the first segment, which must not be empty, and the tool
\* name is all that follows the first "/".
MatchToolInfoRoute(path) ==
    LET slash == FirstSlash(path, 1) IN
    IF slash <= 1 THEN [matched |-> FALSE, category |-> <<>>, tool_name |-> <<>>]
    ELSE [matched |-> TRUE,
          category |-> SubSeq(path, 1, slash - 1),
          tool_name |-> SubSeq(path, slash + 1, Len(path))]

\* get_tool_info(category, tool_name)
get_tool_info(tls, category, tool_name) ==
    LET full_tool_name == category \o <<"/">> \o tool_name IN
    IF full_tool_name \notin Range(tls)
    THEN Response(404, [detail |-> full_tool_name])
    ELSE Response(200, [name |-> full_tool_name, category |-> category])

InitAdapter ==
    /\ TOOL_REGISTRY = <<>>
    /\ mcp = {}
    /\ tools \in AdapterTools
    /\ config = EmptyConfig
    /\ filtered = <<>>
    /\ rest = NoRest
    /\ raised = "none"
    /\ last = NoCall
    /\ modules = <<>>
    /\ pc = "serving"
    /\ args = NoCall
    /\ ret = NoRet

\* GET {prefix}/{category}/{tool_name} for the category and the short name
\* of a listed tool.
GetToolInfo(entry) ==
    /\ pc = "serving"
    /\ LET route == MatchToolInfoRoute(entry.category \o <<"/">> \o entry.name) IN
        /\ args' = [fn |-> "get_tool_info", category |-> entry.category,
                     tool_name |-> entry.name]
        /\ ret' = IF route.matched
                   THEN get_tool_info(tools, route.category, route.tool_name)
                   ELSE Response(404, [detail |-> <<"Not Found">>])
    /\ UNCHANGED <<appVars, pc>>

\* GET {prefix}: the category listing.
AdapterListTools ==
    /\ pc = "serving"
    /\ args' = [fn |-> "list_tools"]
    /\ ret' = Response(200, [total_tools |-> Len(tools),
                              entries |-> _get_tool_categories(tools)])
    /\ UNCHANGED <<appVars, pc>>

NextAdapter ==
    \/ AdapterListTools
    \/ \E entry \in Range(_get_tool_categories(tools)) : GetToolInfo(entry)

SpecAdapter == InitAdapter /\ [][NextAdapter]_vars

-----------------------------------------------------------------------------
(* The info endpoints of register_routes: GET /tools, GET /tools/{category} *)
(* and GET /tools/{category}/{tool_name}                                   *)

\* The characters of the model's names and paths in ascending order of
\* their code points; ord gives the place of a character in that order.
CodePointOrder ==
    <<".", "/", "_", "a", "b", "c", "d", "e", "g", "i", "l", "m", "n", "o", "p",
      "r", "s", "t", "u", "x", "y", "z">>

ord(c) == CHOOSE i \in 1..Len(CodePointOrder) : CodePointOrder[i] = c

\* str.__lt__
RECURSIVE StrLess(_, _, _)
StrLess(s, t, i) ==
    IF i > Len(t) THEN FALSE
    ELSE IF i > Len(s) THEN TRUE
    ELSE IF s[i] # t[i] THEN ord(s[i]) < ord(t[i])
    ELSE StrLess(s, t, i + 1)

\* sorted(categories.items()): the keys are all different, so the items
\* are ordered by key.
RECURSIVE SortedKeys(_)
SortedKeys(keys) ==
    IF keys = {} THEN <<>>
    ELSE LET least == CHOOSE k \in keys : \A o \in keys \ {k} : StrLess(k, o, 1)
         IN  <<least>> \o SortedKeys(keys \ {least})

\* list_tools with the categories in descending order.
ListToolsDescending(routes) ==
    LET keys == SortedKeys(DOMAIN routes.categories)
        n == Len(keys)
    IN  Response(200,
                 [total_tools |-> routes.total_tools,
                  categories |->
                     [i \in 1..n |->
                         [category |-> keys[n + 1 - i],
                          count |-> Len(routes.categories[keys[n + 1 - i]]),
                          tools |-> routes.categories[keys[n + 1 - i]]]]])

\* list_tools()
list_tools(routes) ==
    LET keys == SortedKeys(DOMAIN routes.categories) IN
    Response(200,
             [total_tools |-> routes.total_tools,
              categories |->
                 [i \in 1..Len(keys) |->
                     [category |-> keys[i],
                      count |-> Len(routes.categories[keys[i]]),
                      tools |-> routes.categories[keys[i]]]]])

\* get_category(category)
get_category(routes, category) ==
    IF category \notin DOMAIN routes.categories
    THEN Response(404, [detail |-> <<"Category not found", category>>])
    ELSE Response(200,
                  [category |-> category,
                   count |-> Len(routes.categories[category]),
                   tools |-> routes.categories[category]])

\* tool_lookup.get(key): the registration under the key as a list of one
\* element, the empty list standing for None.
LookupGet(tool_lookup, key) ==
    IF key \in DOMAIN tool_lookup THEN <<tool_lookup[key]>> ELSE <<>>

ToolInfo(reg) ==
    [name |-> reg.name, category |-> reg.category,
     endpoint |-> <<"/", "tools", "/">> \o reg.name, func |-> reg.func]

\* get_tool with the two lookups tried in the other order.
GetToolPrefixFirst(routes, category, tool_name) ==
    LET prefixed == LookupGet(routes.tool_lookup,
                              <<category, category \o <<"_">> \o tool_name>>)
        reg == IF prefixed # <<>> THEN prefixed
               ELSE LookupGet(routes.tool_lookup, <<category, tool_name>>)
    IN  IF reg = <<>>
        THEN Response(404, [detail |-> <<"Tool not found", tool_name, category>>])
        ELSE Response(200, ToolInfo(reg[1]))

\* get_tool(category, tool_name): a registration is never falsy, so the
\* second lookup is made only when the first gives None.  The field func
\* of the answer stands for the description and the input schema, which
\* are read from the callable.
get_tool(routes, category, tool_name) ==
    LET exact == LookupGet(routes.tool_lookup, <<category, tool_name>>)
        reg == IF exact # <<>> THEN exact
               ELSE LookupGet(routes.tool_lookup,
                              <<category, category \o <<"_">> \o tool_name>>)
    IN  IF reg = <<>>
        THEN Response(404, [detail |-> <<"Tool not found", tool_name, category>>])
        ELSE Response(200, ToolInfo(reg[1]))

ListRequest == [fn |-> "list_tools"]
CategoryRequest(category) == [fn |-> "get_category", category |-> category]
ToolRequest(category, tool_name) ==
    [fn |-> "get_tool", category |-> category, tool_name |-> tool_name]

InfoFns == {"list_tools", "get_category", "get_tool"}

\* The handler that the router runs for an info request.
handle_get(routes, request) ==
    CASE request.fn = "list_tools" -> list_tools(routes)
      [] request.fn = "get_category" -> get_category(routes, request.category)
      [] request.fn = "get_tool" ->
            get_tool(routes, request.category, request.tool_name)

\* The structures of the handlers read TOOL_REGISTRY anew at every request.
SnapshotRebuilt(routes, registry) == register_routes(registry)

\* The handlers are closures over the structures register_routes built:
\* TOOL_REGISTRY is not read again.
snapshot(routes, registry) == routes

\* An info request is answered by the served application.
Get(request) ==
    /\ pc = "serving"
    /\ last' = request
    /\ ret' = handle_get(snapshot(rest, TOOL_REGISTRY), request)
    /\ UNCHANGED <<modules, TOOL_REGISTRY, pc, mcp, tools, config, filtered, rest,
                   raised, args>>

-----------------------------------------------------------------------------
(* SpecServe: the served application under requests that overlap.  The     *)
(* handlers are coroutines on one event loop: an info handler has no await *)
(* and runs in one step; the execute endpoint is suspended while it awaits *)
(* an asynchronous tool, and other requests are handled meanwhile.         *)

MaxServeTools == 2  \* most registrations of the served registry
MaxInFlight == 2    \* most requests in flight at once

ServeNames == {<<"a">>, <<"x", "_", "a">>}
ServeCategories == {<<"x">>, <<"y">>}
NoCategory == <<"z">>

ServeCallables ==
    {[is_async |-> TRUE, sig |-> <<Parameter("p", Annotation("int", <<>>), "empty")>>],
     [is_async |-> FALSE, sig |-> <<>>]}

ServeRegistrations ==
    {ToolRegistration(n, c, f) : n \in ServeNames, c \in ServeCategories,
                                 f \in ServeCallables}

ServeRegistries == UNION {[1..k -> ServeRegistrations] : k \in 0..MaxServeTools}

\* The registries and requests of the overlapping requests: tools of one
\* category, synchronous and asynchronous.
FlightRegistrations ==
    {ToolRegistration(<<"a">>, <<"x">>, f) : f \in ServeCallables}
    \cup {ToolRegistration(<<"x", "_", "a">>, <<"x">>, f) :
            f \in {g \in ServeCallables : g.is_async}}

FlightRegistries == UNION {[1..k -> FlightRegistrations] : k \in 0..MaxServeTools}

ServeBodies == [{"p"} -> {"7", Absent}]

ServeBehaviours == {Returns("v1"), Raises("ValueError", "m1")}

PostRequest(tool_name, body, behaviour) ==
    [fn |-> "POST", name |-> tool_name, body |-> body, behaviour |-> behaviour]

InfoRequests ==
    {ListRequest}
    \cup {CategoryRequest(c) : c \in ServeCategories \cup {NoCategory}}
    \cup {ToolRequest(c, n) : c \in ServeCategories, n \in ServeNames}

FlightRequests ==
    {ListRequest, CategoryRequest(<<"x">>), ToolRequest(<<"x">>, <<"a">>)}

PostRequests ==
    {PostRequest(n, body, behaviour) :
        n \in ServeNames, body \in ServeBodies, behaviour \in ServeBehaviours}

\* SpecInfo: the info endpoints on a registry, one request at a time.
InitInfo ==
    /\ TOOL_REGISTRY \in ServeRegistries
    /\ rest = register_routes(TOOL_REGISTRY)
    /\ mcp = {}
    /\ tools = <<>>
    /\ config = EmptyConfig
    /\ filtered = <<>>
    /\ raised = "none"
    /\ modules = <<>>
    /\ pc = "serving"
    /\ last = NoCall
    /\ args = NoCall
    /\ ret = NoRet

NextInfo == \E request \in InfoRequests : Get(request)

SpecInfo == InitInfo /\ [][NextInfo]_vars

Slots == 1..MaxInFlight

\* The frame of a request's coroutine.
NoFrame == [state |-> "none"]
Suspended(reg, data, behaviour, overlap) ==
    [state |-> "suspended", reg |-> reg, data |-> data, behaviour |-> behaviour,
     overlap |-> overlap]
Finished(resumed, overlap) ==
    [state |-> "finished", resumed |-> resumed, overlap |-> overlap]

\* The execute endpoint up to its await: the list holds the registration
\* and the validated data when the coroutine is suspended in the tool, and
\* is empty when the request is answered without a suspension.
AwaitPoint(routes, request) ==
    LET at == {i \in 1..Len(routes) : routes[i].name = request.name} IN
    IF at = {} THEN <<>>
    ELSE LET reg == routes[CHOOSE i \in at : \A j \in at : i <= j]
             data == model_validate(InputModel(reg), request.body)
         IN  IF data.status = "raised" THEN <<>>
             ELSE IF /\ reg.func.is_async
                     /\ call(reg.func, model_dump(data.value, TRUE),
                             request.behaviour).invoked # <<>>
                  THEN <<[reg |-> reg, data |-> data.value]>>
             ELSE <<>>

\* The frame of the request that was suspended last, as when the locals of
\* the endpoint were shared by the requests.
ResumeSharedFrame(frames, slot) ==
    frames[CHOOSE s \in Slots :
              /\ frames[s].state = "suspended"
              /\ \A o \in Slots : frames[o].state = "suspended" => o <= s]

\* A coroutine is resumed with the frame it was suspended with.
resume(frames, slot) == frames[slot]

InitServe ==
    /\ TOOL_REGISTRY \in FlightRegistries
    /\ rest = register_routes(TOOL_REGISTRY)
    /\ mcp = {}
    /\ tools = <<>>
    /\ config = EmptyConfig
    /\ filtered = <<>>
    /\ raised = "none"
    /\ modules = <<>>
    /\ pc = "serving"
    /\ last = [slot \in Slots |-> NoFrame]
    /\ args = [slot \in Slots |-> NoCall]
    /\ ret = [slot \in Slots |-> NoRet]

\* An info request arrives and is answered.
ServeGet(slot, request) ==
    /\ pc = "serving"
    /\ args[slot] = NoCall
    /\ args' = [args EXCEPT ![slot] = request]
    /\ ret' = [ret EXCEPT ![slot] = handle_get(rest, request)]
    /\ last' = [last EXCEPT ![slot] =
                  Finished(FALSE, \E o \in Slots : last[o].state = "suspended")]
    /\ UNCHANGED <<modules, TOOL_REGISTRY, pc, mcp, tools, config, filtered, rest, raised>>

\* An execute request arrives: it is answered, or its coroutine is
\* suspended in the tool.
StartPost(slot, request) ==
    /\ pc = "serving"
    /\ args[slot] = NoCall
    /\ args' = [args EXCEPT ![slot] = request]
    /\ LET point == AwaitPoint(rest.routes, request)
           overlap == \E o \in Slots : last[o].state = "suspended"
       IN  IF point = <<>>
           THEN /\ ret' = [ret EXCEPT ![slot] =
                             handle_post(rest.routes, request.name, request.body,
                                         request.behaviour).response]
                /\ last' = [last EXCEPT ![slot] = Finished(FALSE, overlap)]
           ELSE /\ ret' = ret
                /\ last' = [last EXCEPT ![slot] =
                             Suspended(point[1].reg, point[1].data,
                                       request.behaviour, overlap)]
    /\ UNCHANGED <<modules, TOOL_REGISTRY, pc, mcp, tools, config, filtered, rest, raised>>

\* The tool of a suspended execute request ends and the endpoint answers.
FinishPost(slot) ==
    /\ pc = "serving"
    /\ last[slot].state = "suspended"
    /\ LET frame == resume(last, slot) IN
        ret' = [ret EXCEPT ![slot] =
                  endpoint(frame.reg, frame.data, frame.behaviour).response]
    /\ last' = [last EXCEPT ![slot] =
                  Finished(TRUE, \/ last[slot].overlap
                                 \/ \E o \in Slots \ {slot} : last[o].state = "suspended")]
    /\ UNCHANGED <<modules, TOOL_REGISTRY, pc, mcp, tools, config, filtered, rest,
                   raised, args>>

NextServe ==
    \E slot \in Slots :
        \/ \E request \in FlightRequests : ServeGet(slot, request)
        \/ \E request \in PostRequests : StartPost(slot, request)
        \/ FinishPost(slot)

SpecServe == InitServe /\ [][NextServe]_vars

-----------------------------------------------------------------------------
(* SpecDiscover: the two loaders of the tool files, _load_modules of       *)
(* src/humcp/server.py and _import_tool_modules of src/mcp_register.py,    *)
(* on a directory tree                                                     *)

MaxFiles == 3       \* most *.py files under the tools directory

PySuffix == <<".", "p", "y">>

\* The relative paths a *.py file of the tree may have, as path components.
TreePaths ==
    {<< <<"a">> \o PySuffix >>,
     << <<"b">> \o PySuffix >>,
     << <<"_", "a">> \o PySuffix >>,
     << <<"a">>, <<"b">> \o PySuffix >>,
     << <<"a">>, <<"_", "a">> \o PySuffix >>}

RootName == <<"t", "o", "o", "l", "s">>

\* What the body of a file does before it ends: it decorates the function a
\* with tool() of src/humcp/decorator.py, or with tool() of
\* src/tools/__init__.py, or defines no tool.
FileBodies == {<<>>, <<"humcp.tool">>, <<"tools.tool">>}

\* How the body ends: it runs to its end or raises.
Outcomes == {"ok", "ImportError"}

path_name(path) == path[Len(path)]
path_stem(path) == SubSeq(path_name(path), 1, Len(path_name(path)) - Len(PySuffix))
parent_name(path) == IF Len(path) > 1 THEN path[Len(path) - 1] ELSE RootName

startswith_underscore(path) == path_name(path)[1] = "_"

SourceFile(path, body, outcome) == [path |-> path, body |-> body, outcome |-> outcome]

\* A file that is never loaded is modelled with one body only.
SourceFiles ==
    {SourceFile(path, body, outcome) :
        path \in {q \in TreePaths : ~startswith_underscore(q)},
        body \in FileBodies, outcome \in Outcomes}
    \cup {SourceFile(path, <<>>, "ok") : path \in {q \in TreePaths : startswith_underscore(q)}}

\* PurePath.__lt__: the paths compare as the tuples of their components.
RECURSIVE PathLess(_, _, _)
PathLess(p, q, i) ==
    IF i > Len(q) THEN FALSE
    ELSE IF i > Len(p) THEN TRUE
    ELSE IF p[i] # q[i] THEN StrLess(p[i], q[i], 1)
    ELSE PathLess(p, q, i + 1)

\* sorted(...) of a listing of files with different paths.
RECURSIVE Insert(_, _)
Insert(file, sorted_files) ==
    IF sorted_files = <<>> THEN <<file>>
    ELSE IF PathLess(file.path, Head(sorted_files).path, 1)
         THEN <<file>> \o sorted_files
    ELSE <<Head(sorted_files)>> \o Insert(file, Tail(sorted_files))

RECURSIVE sorted(_)
sorted(listing) ==
    IF listing = <<>> THEN <<>>
    ELSE Insert(listing[Len(listing)], sorted(SubSeq(listing, 1, Len(listing) - 1)))

\* The function a file defines, as the module holds it after the decorator.
FunctionOf(file) ==
    [fn |-> <<"a">>, id |-> <<file.path, <<"a">>>>,
     is_tool |-> file.body = <<"humcp.tool">>,
     meta |-> IF file.body = <<"humcp.tool">>
              THEN ToolMetadata(ResolveName(None, <<"a">>),
                                ResolveCategory(None, parent_name(file.path)))
              ELSE NoMetadata]

ModuleOf(file) ==
    [dir |-> parent_name(file.path), stem |-> path_stem(file.path),
     funcs |-> IF file.body = <<>> THEN {} ELSE {FunctionOf(file)}]

\* What a loader has done so far: the modules it collected, the global
\* registry, the files it tried in order and the warnings it logged.
LoadState(mods, registry, tried, warnings) ==
    [modules |-> mods, TOOL_REGISTRY |-> registry, tried |-> tried,
     warnings |-> warnings]

\* spec.loader.exec_module(module): the body runs, and a decorator of
\* src/tools/__init__.py appends to TOOL_REGISTRY when it runs.
RunBody(file, registry) ==
    IF file.body = <<"tools.tool">>
    THEN Append(registry,
                ToolRegistration(<<"a">>, path_stem(file.path), <<file.path, <<"a">>>>))
    ELSE registry

\* The try statement of _load_modules with a failed module kept in the list.
TryLoadKeepsFailed(file, st) ==
    LoadState(Append(st.modules, ModuleOf(file)),
              RunBody(file, st.TOOL_REGISTRY),
              Append(st.tried, file.path),
              st.warnings)

\* The try statement of _load_modules for one file.
TryLoad(file, st) ==
    IF file.outcome = "ok"
    THEN LoadState(Append(st.modules, ModuleOf(file)),
                   RunBody(file, st.TOOL_REGISTRY),
                   Append(st.tried, file.path),
                   st.warnings)
    ELSE LoadState(st.modules,
                   RunBody(file, st.TOOL_REGISTRY),
                   Append(st.tried, file.path),
                   Append(st.warnings, file.path))

RECURSIVE LoadLoop(_, _, _)
LoadLoop(files, i, st) ==
    IF i > Len(files) THEN st
    ELSE IF startswith_underscore(files[i].path) THEN LoadLoop(files, i + 1, st)
    ELSE LoadLoop(files, i + 1, TryLoad(files[i], st))

\* _load_modules(tools_path): rglob lists the files in the order of the
\* file system, and the loop runs over the sorted listing.
_load_modules(root_exists, listing, registry) ==
    IF ~root_exists THEN LoadState(<<>>, registry, <<>>, <<>>)
    ELSE LoadLoop(sorted(listing), 1, LoadState(<<>>, registry, <<>>, <<>>))

\* _import_tool_modules(): the loop runs over the listing as rglob gives
\* it, and the module objects are dropped.
_import_tool_modules(listing, registry) ==
    LET st == LoadLoop(listing, 1, LoadState(<<>>, registry, <<>>, <<>>)) IN
    LoadState(<<>>, st.TOOL_REGISTRY, st.tried, st.warnings)

\* The listings rglob may give: the files of a tree in any order.  A root
\* directory that does not exist has no files.
Listings(n) ==
    UNION {{l \in [1..k -> SourceFiles] :
               \A i, j \in 1..k : l[i].path = l[j].path => i = j} : k \in 0..n}

Loaders == {"_load_modules", "_import_tool_modules"}

InitDiscover ==
    /\ Fresh
    /\ modules = <<>>
    /\ pc = "call"
    /\ \E loader \in Loaders, root_exists \in BOOLEAN :
        \E listing \in Listings(IF root_exists THEN MaxFiles ELSE 0) :
            args = [fn |-> loader, root_exists |-> root_exists, listing |-> listing]
    /\ ret = NoRet

\* modules = _load_modules(tools_path), of create_app
LoadModules ==
    /\ pc = "call"
    /\ args.fn = "_load_modules"
    /\ LET st == _load_modules(args.root_exists, args.listing, TOOL_REGISTRY) IN
        /\ modules' = st.modules
        /\ TOOL_REGISTRY' = st.TOOL_REGISTRY
        /\ last' = [fn |-> "_load_modules", tried |-> st.tried, warnings |-> st.warnings]
        /\ ret' = Returned(st.modules)
    /\ pc' = "import"
    /\ UNCHANGED <<mcp, tools, config, filtered, rest, raised, args>>

\* mcp.tool(name=...)(func) for every registration, in order.  A name
\* that is already registered is kept or replaced, as the FastMCP version
\* in use does.
RECURSIVE RegisterAll(_, _, _, _, _)
RegisterAll(registry, i, seen_funcs, server, on_duplicate) ==
    IF i > Len(registry) THEN server
    ELSE IF registry[i].func \in seen_funcs
         THEN RegisterAll(registry, i + 1, seen_funcs, server, on_duplicate)
    ELSE LET entry == [name |-> registry[i].name, fn |-> registry[i].func]
             same == {t \in server : t.name = entry.name}
         IN  RegisterAll(registry, i + 1, seen_funcs \cup {registry[i].func},
                         IF same = {} THEN server \cup {entry}
                         ELSE IF on_duplicate = "replace"
                              THEN (server \ same) \cup {entry}
                         ELSE server,
                         on_duplicate)

\* create_mcp_server(): _import_tool_modules(), then every registration of
\* TOOL_REGISTRY is registered with the FastMCP server.
CreateMcpServer ==
    /\ pc = "call"
    /\ args.fn = "_import_tool_modules"
    /\ LET st == _import_tool_modules(args.listing, TOOL_REGISTRY) IN
        /\ modules' = st.modules
        /\ TOOL_REGISTRY' = st.TOOL_REGISTRY
        /\ last' = [fn |-> "_import_tool_modules", tried |-> st.tried,
                    warnings |-> st.warnings]
        /\ \E on_duplicate \in {"keep", "replace"} :
             mcp' = RegisterAll(st.TOOL_REGISTRY, 1, {}, {}, on_duplicate)
        /\ ret' = Returned(None)
    /\ pc' = "mcp_created"
    /\ UNCHANGED <<tools, config, filtered, rest, raised, args>>

\* create_app in a directory that holds no config file.
NoConfigFile == {[kind |-> "missing"]}

MaxLate == 1        \* most registrations made after the routes were registered

LateName == <<"l">>
LateFunc == <<"late">>
LateCategories == {<<"a">>, <<"l">>}

\* A module imported while the application serves decorates a function
\* with tool() of src/tools/__init__.py.
LateRegistration(category) ==
    /\ pc = "serving"
    /\ Len(TOOL_REGISTRY) < rest.total_tools + MaxLate
    /\ TOOL_REGISTRY' = Append(TOOL_REGISTRY,
                               ToolRegistration(LateName, category, LateFunc))
    /\ last' = [fn |-> "tool", name |-> LateName, category |-> category]
    /\ UNCHANGED <<modules, pc, mcp, tools, config, filtered, rest, raised, args, ret>>

\* The info requests made of the application of create_app.
AppRequests ==
    {ListRequest}
    \cup {CategoryRequest(c) : c \in {<<"a">>, <<"b">>, RootName} \cup LateCategories}
    \cup {ToolRequest(c, <<"a">>) : c \in {<<"a">>, <<"b">>}}
    \cup {ToolRequest(c, LateName) : c \in LateCategories}

NextDiscover ==
    \/ LoadModules
    \/ DiscoverAndRegister
    \/ LoadConfigFrom(NoConfigFile)
    \/ FilterTools
    \/ RegisterRoutes
    \/ CreateMcpServer
    \/ \E category \in LateCategories : LateRegistration(category)
    \/ \E request \in AppRequests : Get(request)

SpecDiscover == InitDiscover /\ [][NextDiscover]_vars

-----------------------------------------------------------------------------
(* What the claims speak of, stated without the code's operators *)

HasWildcardChar(pattern) == Range(pattern) \cap {"*", "?", "["} # {}

\* Glob rules on the raw pattern: the class opened by the "[" at index i
\* closes at the first "]" that is not the first character of its body
\* (after an optional "!"); 0 when the class does not close.
GlobBodyStart(p, i) == IF i + 1 <= Len(p) /\ p[i + 1] = "!" THEN i + 2 ELSE i + 1

GlobClose(p, i) ==
    LET closers == {e \in (GlobBodyStart(p, i) + 1)..Len(p) : p[e] = "]"}
    IN  IF closers = {} THEN 0
        ELSE CHOOSE e \in closers : \A f \in closers : e <= f

GlobClassTakes(p, i, ch) ==
    LET b == GlobBodyStart(p, i)
        members == {p[k] : k \in b..(GlobClose(p, i) - 1)}
    IN  (ch \in members) # (b = i + 2)

\* p from index i on matches n from index j on:
\* * = any run of characters, ? = exactly one, [...] = one of the class.
RECURSIVE Glob(_, _, _, _)
Glob(p, i, n, j) ==
    IF i > Len(p) THEN j > Len(n)
    ELSE IF p[i] = "*" THEN \E k \in j..(Len(n) + 1) : Glob(p, i + 1, n, k)
    ELSE IF j > Len(n) THEN FALSE
    ELSE IF p[i] = "?" THEN Glob(p, i + 1, n, j + 1)
    ELSE IF p[i] = "[" /\ GlobClose(p, i) # 0
         THEN GlobClassTakes(p, i, n[j]) /\ Glob(p, GlobClose(p, i) + 1, n, j + 1)
    ELSE p[i] = n[j] /\ Glob(p, i + 1, n, j + 1)

NameMatches(pattern, name) ==
    IF HasWildcardChar(pattern) THEN Glob(pattern, 1, name, 1) ELSE name = pattern

\* The tool is named by the filter: by its category or by a pattern.
Named(reg, f) ==
    \/ \E i \in 1..Len(f.categories) : f.categories[i] = reg.category
    \/ \E i \in 1..Len(f.tools) : NameMatches(f.tools[i], reg.name)

Count(seq, x) == Cardinality({i \in 1..Len(seq) : seq[i] = x})

RECURSIVE Keep(_, _, _)
Keep(t, i, pick) ==
    IF i > Len(t) THEN <<>>
    ELSE (IF i \in pick THEN <<t[i]>> ELSE <<>>) \o Keep(t, i + 1, pick)

\* s is t with some elements left out.
IsSubSeq(s, t) == \E pick \in SUBSET (1..Len(t)) : s = Keep(t, 1, pick)

\* The config names a category no tool has, or a plain tool name no tool has.
NamesUnknown(cfg, tls) ==
    \E f \in {cfg.include, cfg.exclude} :
        \/ \E i \in 1..Len(f.categories) :
               \A k \in 1..Len(tls) : tls[k].category # f.categories[i]
        \/ \E i \in 1..Len(f.tools) :
               /\ ~HasWildcardChar(f.tools[i])
               /\ \A k \in 1..Len(tls) : tls[k].name # f.tools[i]

FilterDone == pc = "done" /\ "tools" \in DOMAIN args
ValidateDone == pc = "done" /\ "available_tools" \in DOMAIN args
MatchDone == pc = "done" /\ "pattern" \in DOMAIN args

-----------------------------------------------------------------------------
(* Claims about filter_tools, validate_config and pattern matching *)

\* C5: with validate = true, a config that names an unknown category or an
\* unknown plain tool name makes filter_tools raise, for every tool list,
\* the empty list included.
C5_RaisesOnUnknown ==
    (FilterDone /\ args.validate /\ NamesUnknown(args.config, args.tools))
        => ret.status = "raised"

\* C6: with a non-empty include and an empty exclude, the list filter_tools
\* returns is the input list restricted, in order and each tool once per
\* occurrence, to the tools whose category is in include.categories or whose
\* name matches a pattern of include.tools.
C6_IncludeIsUnion ==
    (/\ FilterDone
     /\ ~(args.config.include.categories = <<>> /\ args.config.include.tools = <<>>)
     /\ args.config.exclude.categories = <<>> /\ args.config.exclude.tools = <<>>
     /\ ret.status = "returned")
        => ret.value = SelectSeq(args.tools, LAMBDA t : Named(t, args.config.include))

C6_Witness ==
    /\ FilterDone /\ ret.status = "returned"
    /\ args.config.include.categories # <<>> /\ args.config.include.tools # <<>>
    /\ args.config.exclude.categories = <<>> /\ args.config.exclude.tools = <<>>
    /\ Len(args.tools) = 2 /\ Len(ret.value) = 2
    /\ ret.value[1].category \in Range(args.config.include.categories)
    /\ ret.value[2].category \notin Range(args.config.include.categories)

\* C7: no returned tool is named by exclude, also when include names it too;
\* every returned tool is one include kept, and the result is the input with
\* tools left out, never with one added.
C7_ExcludeWins ==
    (FilterDone /\ ret.status = "returned")
        => /\ \A i \in 1..Len(ret.value) :
                /\ ~Named(ret.value[i], args.config.exclude)
                /\ \/ args.config.include.categories = <<>>
                      /\ args.config.include.tools = <<>>
                   \/ Named(ret.value[i], args.config.include)
           /\ IsSubSeq(ret.value, args.tools)

C7_Witness ==
    /\ FilterDone /\ ret.status = "returned"
    /\ \E i \in 1..Len(args.tools) :
        /\ Named(args.tools[i], args.config.include)
        /\ Named(args.tools[i], args.config.exclude)
        /\ args.tools[i] \notin Range(ret.value)
    /\ ret.value # <<>>

\* C8: with include and exclude both empty, filter_tools returns the input
\* list itself, with validate true and with validate false.
C8_EmptyConfigIdentity ==
    (FilterDone /\ args.config = EmptyConfig) => ret = Returned(args.tools)

C8_Witness ==
    /\ FilterDone /\ args.config = EmptyConfig /\ args.validate
    /\ Len(args.tools) = 2 /\ ret.status = "returned"

\* C9: validate_config reports one error per unknown category entry and per
\* unknown plain tool name entry, one warning and no error per wildcard
\* pattern entry that matches no available tool, nothing else, and valid is
\* true exactly when there is no error.
ExpectedErrors(cfg, section, field, item) ==
    LET f == IF section = "include" THEN cfg.include ELSE cfg.exclude IN
    IF field = "categories"
    THEN IF item \in args.available_categories THEN 0 ELSE Count(f.categories, item)
    ELSE IF HasWildcardChar(item) \/ item \in args.available_tools THEN 0
         ELSE Count(f.tools, item)

ExpectedWarnings(cfg, section, field, item) ==
    LET f == IF section = "include" THEN cfg.include ELSE cfg.exclude IN
    IF /\ field = "tools"
       /\ HasWildcardChar(item)
       /\ \A t \in args.available_tools : ~Glob(item, 1, t, 1)
    THEN Count(f.tools, item) ELSE 0

C9_ValidateCollectsAll ==
    ValidateDone =>
        /\ \A section \in {"include", "exclude"}, field \in {"categories", "tools"},
              item \in CfgCategories \cup CfgPatterns :
                /\ Count(ret.value.errors, Problem(section, field, item))
                       = ExpectedErrors(args.config, section, field, item)
                /\ Count(ret.value.warnings, Problem(section, field, item))
                       = ExpectedWarnings(args.config, section, field, item)
        /\ ret.value.valid <=> (ret.value.errors = <<>>)

C9_Witness ==
    /\ ValidateDone
    /\ Len(ret.value.errors) = 2
    /\ ret.value.errors[1].field = "categories"
    /\ ret.value.errors[2].field = "tools"
    /\ Len(ret.value.warnings) = 1
    /\ ~ret.value.valid

\* C10: a pattern holding *, ? or [ matches a name exactly when the whole
\* name matches it under glob rules; any other pattern matches only the
\* identical name.
C10_GlobSemantics ==
    MatchDone =>
        ret.value = IF HasWildcardChar(args.pattern)
                    THEN Glob(args.pattern, 1, args.name, 1)
                    ELSE args.name = args.pattern

C10_Witness ==
    /\ MatchDone
    /\ args.pattern = <<"[", "!", "a", "]">>
    /\ args.name = <<"b">>
    /\ ret.value

-----------------------------------------------------------------------------
(* Claims about registration and the two surfaces *)

NoTwoShareName(list) ==
    \A i, j \in 1..Len(list) : list[i].name = list[j].name => i = j

McpNames == {t.name : t \in mcp}
RestNames == {rest.routes[i].name : i \in 1..Len(rest.routes)}
ListedNames ==
    UNION {{rest.categories[c][i].name : i \in 1..Len(rest.categories[c])} :
           c \in DOMAIN rest.categories}
LookupNames == {rest.tool_lookup[key].name : key \in DOMAIN rest.tool_lookup}

\* C1: decorating a function under a name that a decorated function already
\* carries fails with a duplicate-name error.
C1_DuplicateRaises ==
    (last.fn = "tool" /\ last.duplicate) => raised = "ValueError"

\* C2: after any decorations and discovery, no two entries of the registry
\* and no two entries of the discovered tool list share a name.
C2_UniqueNames == NoTwoShareName(TOOL_REGISTRY) /\ NoTwoShareName(tools)

-----------------------------------------------------------------------------
(* Claims about loading the config and naming a tool *)

\* C11: load_config returns the config with empty include and empty exclude
\* when the file is missing or empty, and raises, returning nothing, when
\* the file exists and is malformed.
C11_LoadDefaultsOrRaises ==
    (pc = "done" /\ "file" \in DOMAIN args) =>
        /\ args.file.kind \in {"missing", "empty"} =>
               /\ ret.status = "returned"
               /\ ret.value.include = FilterConfig(<<>>, <<>>)
               /\ ret.value.exclude = FilterConfig(<<>>, <<>>)
        /\ args.file.kind = "malformed" => ret.status = "raised" /\ ret.exc = "ValueError"

C11_Witness ==
    /\ pc = "done"
    /\ args.file.kind = "malformed"
    /\ ret.status = "raised"

\* C12: the name a decorated function is registered under is the explicit
\* name when one is given and not empty, else category_function when a
\* category is given, else the function's own name.
ExpectedName(tool_name, category, func) ==
    IF tool_name \notin {None, <<>>} THEN tool_name
    ELSE IF category # None THEN category \o <<"_">> \o func
    ELSE func

C12_NameResolution ==
    last.fn = "tool" =>
        last.name = ExpectedName(last.tool_name, last.category, last.func)

-----------------------------------------------------------------------------
(* Claims about schema inference *)

SchemaDone == pc = "done" /\ "sig" \in DOMAIN args

Listed(name) == \E i \in 1..Len(ret.value.required) : ret.value.required[i] = name

\* C19, as stated: every parameter of the signature is listed in required
\* exactly when it has no default, and every name listed is a property.
C19_RequiredIffNoDefault ==
    SchemaDone =>
        /\ \A prm \in Range(args.sig) : Listed(prm.name) <=> prm.default = "empty"
        /\ \A name \in Range(ret.value.required) : name \in DOMAIN ret.value.properties

\* C19, amended: a parameter that has an annotation other than NoneType is
\* a property, and is listed in required exactly when it has no default; a
\* parameter without annotation, or annotated NoneType, is neither a
\* property nor listed, with or without a default; required lists each
\* name once, in declaration order.
C19_RequiredIffAnnotatedNoDefault ==
    SchemaDone =>
        /\ \A prm \in Range(args.sig) :
              /\ prm.name \in DOMAIN ret.value.properties
                    <=> prm.annotation.origin \notin {"empty", "NoneType"}
              /\ Listed(prm.name)
                    <=> /\ prm.annotation.origin \notin {"empty", "NoneType"}
                        /\ prm.default = "empty"
        /\ IsSubSeq(ret.value.required, [i \in 1..Len(args.sig) |-> args.sig[i].name])

C19_Witness ==
    /\ SchemaDone
    /\ Len(args.sig) = 2
    /\ args.sig[1] = Parameter("p", Empty, "empty")
    /\ args.sig[2] = Parameter("q", Annotation("int", <<>>), "None")
    /\ ret.value.required = <<>>
    /\ DOMAIN ret.value.properties = {"q"}

\* C20: the JSON type of a property is the one of the parameter's own
\* annotation: str, int, float, bool, list and dict map to string, integer,
\* number, boolean, array and object, subscripted list and dict included;
\* "T or None" maps as T; anything else is string.
ExpectedType(ann) ==
    IF ann.origin = "Union"
    THEN type_map(CHOOSE c \in Range(ann.args) : c # "NoneType")
    ELSE type_map(ann.origin)

C20_TypeOfOwnAnnotation ==
    SchemaDone =>
        \A prm \in Range(args.sig) :
            prm.name \in DOMAIN ret.value.properties =>
                ret.value.properties[prm.name] = ExpectedType(prm.annotation)

-----------------------------------------------------------------------------
(* Claims about the request model *)

ModelDone == pc = "done" /\ "schema" \in DOMAIN args /\ args.schema.type = "object"

RequiredProperties == DOMAIN args.schema.properties \cap Range(args.schema.required)
OptionalProperties == DOMAIN args.schema.properties \ Range(args.schema.required)

\* C16: a request that leaves a required property out or sends null for
\* it is rejected, whatever the type the schema declares for the property;
\* a request is never rejected for an optional property it leaves out or
\* sends as null.
C16_RequiredPresentNonNull ==
    ModelDone =>
        /\ (\E r \in RequiredProperties : args.body[r] \in {Absent, JsonNull})
              => ret.status = "raised"
        /\ ret.status = "raised" =>
              \A o \in OptionalProperties :
                  args.body[o] \in {Absent, JsonNull} => o \notin ret.detail

-----------------------------------------------------------------------------
(* Claims about the execute endpoint *)

Posted == args.fn = "POST"

Registered == \E i \in 1..Len(TOOL_REGISTRY) : TOOL_REGISTRY[i].name = args.name

PostedTool == CHOOSE reg \in Range(TOOL_REGISTRY) : reg.name = args.name

\* The request passed validation and reached the tool's endpoint.
Entered == Posted /\ Registered /\ ret.status # 422

\* The fields of the request that carry a value.
Remaining ==
    [fname \in {f \in DOMAIN InputModel(PostedTool) :
                  args.body[f] \notin {Absent, JsonNull}} |-> args.body[fname]]

\* C13: a valid request to a registered tool whose callable returns v runs
\* the callable once, with the remaining fields as keyword arguments, and
\* is answered 200 {"result": v}, for synchronous and asynchronous callables.
C13_ExecuteReturnsResult ==
    (Entered /\ args.behaviour.kind = "returns") =>
        /\ last.calls = <<Remaining>>
        /\ ret = Response(200, [result |-> args.behaviour.text])

\* C14: a callable that raises an exception other than HTTPException is
\* answered 500, an HTTPException it raises is answered with its own status
\* and detail; no request changes the registry, the routes, the listings
\* or the lookup, and every request is answered as a freshly built app
\* answers it.
C14_FailureIsContained ==
    /\ [](Entered /\ args.behaviour.kind = "raises" =>
             IF args.behaviour.exc = "HTTPException"
             THEN ret = Response(args.behaviour.status, [detail |-> <<args.behaviour.text>>])
             ELSE ret.status = 500)
    /\ [][/\ TOOL_REGISTRY' = TOOL_REGISTRY
          /\ rest' = rest
          /\ pc' = pc
          /\ ret' = handle_post(register_routes(TOOL_REGISTRY).routes, args'.name,
                                args'.body, args'.behaviour).response]_vars

C14_Witness ==
    /\ Entered
    /\ args.behaviour = RaisesHTTP(404, "gone")
    /\ ret.status = 404
    /\ Len(last.calls) = 1
    /\ Len(TOOL_REGISTRY) = 2

\* C15: the response to a failed call is the same whatever the message of
\* the exception the callable raised.
C15_ResponseHidesMessage ==
    (Entered /\ args.behaviour.kind = "raises" /\ args.behaviour.exc # "HTTPException") =>
        \A m \in Messages :
            handle_post(rest.routes, args.name, args.body,
                        Raises(args.behaviour.exc, m)).response = ret

OptionalFields == {f \in DOMAIN InputModel(PostedTool) : ~InputModel(PostedTool)[f].required}

\* The keyword arguments of the call the same request makes with null sent
\* for the field.
CallsWithNull(field) ==
    handle_post(rest.routes, args.name, [args.body EXCEPT ![field] = JsonNull],
                args.behaviour).calls

\* C17, as stated: a request that leaves an optional field out and the
\* request that sends null for it lead to different keyword arguments.
C17_OmittedDiffersFromNull ==
    Entered =>
        \A o \in OptionalFields :
            args.body[o] = Absent => CallsWithNull(o) # last.calls

\* C17, amended: the two requests lead to the same keyword arguments, and
\* the field is in neither.
C17_OmittedSameAsNull ==
    Entered =>
        \A o \in OptionalFields :
            args.body[o] = Absent =>
                /\ CallsWithNull(o) = last.calls
                /\ \A i \in 1..Len(last.calls) : o \notin DOMAIN last.calls[i]

C17_Witness ==
    /\ Entered
    /\ PostedTool.func.is_async
    /\ args.body = [p |-> "7", q |-> Absent]
    /\ OptionalFields = {"q"}
    /\ last.calls = <<[p |-> "7"]>>
    /\ ret.status = 200

-----------------------------------------------------------------------------
(* Claims about generated type names *)

PascalDone == pc = "done" /\ "tool_name" \in DOMAIN args

\* C28: the type name generated for a tool name is not empty, begins with
\* a letter and holds letters, digits and underscores only.
C28_TypeNameIsIdentifier ==
    PascalDone =>
        /\ ret.value # <<>>
        /\ ret.value[1] \in Letters \cup {"M"}
        /\ \A i \in 1..Len(ret.value) :
              ret.value[i] \in Letters \cup Digits \cup {"_", "M", "o", "d", "e", "l"}

-----------------------------------------------------------------------------
(* Claims about the adapter's info routes *)

\* C30: the tool-info request for the category and short name under which
\* the listing shows a tool is answered 200 with that tool.
C30_ListedToolIsFound ==
    (pc = "serving" /\ args.fn = "get_tool_info") =>
        \A i \in 1..Len(tools) :
            (/\ CategoryEntry(tools[i]).category = args.category
             /\ CategoryEntry(tools[i]).name = args.tool_name)
                => ret = Response(200, [name |-> tools[i], category |-> args.category])

-----------------------------------------------------------------------------
(* Claims about the loading of the tool files *)

Loadable(file) == ~startswith_underscore(file.path)
ListedFiles == Range(args.listing)
FailedFiles == {file \in ListedFiles : Loadable(file) /\ file.outcome # "ok"}
LoadedFiles == {file \in ListedFiles : Loadable(file) /\ file.outcome = "ok"}

LoadModulesDone == args.fn = "_load_modules" /\ pc = "import"
LoaderDone ==
    \/ args.fn = "_load_modules" /\ pc = "import"
    \/ args.fn = "_import_tool_modules" /\ pc = "mcp_created"

\* C24: _load_modules tries every file that does not start with an
\* underscore, whatever the files before it did, and returns as many modules
\* as such files loaded without error; it returns none when the root
\* directory does not exist.
C24_ErrorsDoNotStopDiscovery ==
    LoadModulesDone =>
        /\ ret.status = "returned"
        /\ Len(ret.value) = Cardinality(LoadedFiles)
        /\ \A file \in ListedFiles : Loadable(file) => file.path \in Range(last.tried)
        /\ \A file \in LoadedFiles : ModuleOf(file) \in Range(ret.value)
        /\ ~args.root_exists => ret.value = <<>>

\* A file failed, a later file of the order was loaded, and an underscore
\* file was passed over.
C24_Witness ==
    /\ LoadModulesDone
    /\ \E i, j \in 1..Len(last.tried) :
        /\ i < j
        /\ last.tried[i] \in Range(last.warnings)
        /\ last.tried[j] \notin Range(last.warnings)
    /\ \E file \in ListedFiles : ~Loadable(file)
    /\ Len(ret.value) = 1

\* The order of two strings, and of two relative paths component by
\* component.
Before(s, t) ==
    \E k \in 1..Len(t) :
        /\ \A i \in 1..(k - 1) : i <= Len(s) /\ s[i] = t[i]
        /\ \/ k = Len(s) + 1
           \/ k <= Len(s) /\ ord(s[k]) < ord(t[k])

Precedes(p, q) ==
    \E k \in 1..Len(q) :
        /\ \A i \in 1..(k - 1) : i <= Len(p) /\ p[i] = q[i]
        /\ \/ k = Len(p) + 1
           \/ k <= Len(p) /\ Before(p[k], q[k])

\* C26: either loader loads the files in ascending order of their relative
\* path and passes over the files whose name starts with an underscore.
C26_SortedLoadOrder ==
    LoaderDone =>
        /\ \A i, j \in 1..Len(last.tried) :
              i < j => Precedes(last.tried[i], last.tried[j])
        /\ \A i \in 1..Len(last.tried) : ~startswith_underscore(last.tried[i])

FromFailed(func) == \E file \in FailedFiles : func[1] = file.path

WithoutFailed == SelectSeq(args.listing, LAMBDA file : file \notin FailedFiles)

\* C29: once the application serves, or the MCP server is created, no tool
\* of a file whose load raised is registered with the MCP server or has a
\* REST route, the file is not among the loaded modules, and the registry
\* is what the loader leaves when the file is not there.
C29_FailedModuleContributesNothing ==
    /\ (args.fn = "_load_modules" /\ pc = "serving" /\ last.fn = "register_routes") =>
        /\ \A t \in mcp : ~FromFailed(t.fn)
        /\ \A i \in 1..Len(rest.routes) : ~FromFailed(rest.routes[i].func)
        /\ Len(modules) = Cardinality(LoadedFiles)
        /\ TOOL_REGISTRY =
             _load_modules(args.root_exists, WithoutFailed, <<>>).TOOL_REGISTRY
    /\ (args.fn = "_import_tool_modules" /\ pc = "mcp_created") =>
        /\ \A t \in mcp : ~FromFailed(t.fn)
        /\ TOOL_REGISTRY = _import_tool_modules(WithoutFailed, <<>>).TOOL_REGISTRY

-----------------------------------------------------------------------------
(* Claims about the info endpoints and about overlapping requests *)

Answered(slot) == last[slot].state = "finished"

\* The places of the registry that hold a tool of a name in a category.
Holding(category, tool_name) ==
    {i \in 1..Len(TOOL_REGISTRY) :
        TOOL_REGISTRY[i].category = category /\ TOOL_REGISTRY[i].name = tool_name}

InfoOf(places, response) ==
    /\ response.status = 200
    /\ \E i \in places :
        /\ response.body.name = TOOL_REGISTRY[i].name
        /\ response.body.category = TOOL_REGISTRY[i].category
        /\ response.body.func = TOOL_REGISTRY[i].func

\* C21: GET /tools/{category}/{tool_name} answers with the tool of that
\* name in that category when there is one, with the tool named category,
\* "_", tool_name of that category only when there is none, with 404 when
\* there is neither, and never with a tool of another category.
C21_ExactThenPrefixed ==
    (pc = "serving" /\ last.fn = "get_tool") =>
        LET c == last.category
            n == last.tool_name
            exact == Holding(c, n)
            prefixed == Holding(c, c \o <<"_">> \o n)
        IN  /\ exact # {} => InfoOf(exact, ret)
            /\ (exact = {} /\ prefixed # {}) => InfoOf(prefixed, ret)
            /\ (exact = {} /\ prefixed = {}) => ret.status = 404
            /\ ret.status \in {200, 404}
            /\ ret.status = 200 => ret.body.category = c

\* The category holds a tool of the requested name and a tool of the
\* prefixed name, and the request is answered.
C21_Witness ==
    /\ pc = "serving"
    /\ last = ToolRequest(<<"x">>, <<"a">>)
    /\ Holding(<<"x">>, <<"a">>) # {}
    /\ Holding(<<"x">>, <<"x", "_", "a">>) # {}
    /\ ret.status = 200
    /\ ret.body.name = <<"a">>

\* How often the listing shows a tool summary under a category.
Shown(listing, category, summary) ==
    Cardinality({<<k, j>> \in (1..Len(listing)) \X (1..MaxServeTools + 1) :
                    /\ listing[k].category = category
                    /\ j <= Len(listing[k].tools)
                    /\ listing[k].tools[j] = summary})

RECURSIVE SumCounts(_, _)
SumCounts(listing, k) ==
    IF k > Len(listing) THEN 0 ELSE listing[k].count + SumCounts(listing, k + 1)

\* C23: GET /tools gives the number of registered tools as total_tools,
\* shows every registration once, under its category and under no other,
\* gives each category the length of its list as count, so that the counts
\* sum to total_tools, and gives the categories in ascending order.
C23_ListingIsComplete ==
    (pc = "serving" /\ last.fn = "list_tools") =>
        LET listing == ret.body.categories IN
        /\ ret.status = 200
        /\ ret.body.total_tools = Len(TOOL_REGISTRY)
        /\ \A i \in 1..Len(TOOL_REGISTRY) :
             Shown(listing, TOOL_REGISTRY[i].category, ToolSummary(TOOL_REGISTRY[i]))
                 = Cardinality(Holding(TOOL_REGISTRY[i].category, TOOL_REGISTRY[i].name))
        /\ \A k \in 1..Len(listing) : \A j \in 1..Len(listing[k].tools) :
             \E r \in 1..Len(TOOL_REGISTRY) :
                 /\ TOOL_REGISTRY[r].category = listing[k].category
                 /\ ToolSummary(TOOL_REGISTRY[r]) = listing[k].tools[j]
        /\ \A k \in 1..Len(listing) : listing[k].count = Len(listing[k].tools)
        /\ SumCounts(listing, 1) = ret.body.total_tools
        /\ \A k, l \in 1..Len(listing) :
             k < l => Before(listing[k].category, listing[l].category)

\* The registry holds a tool of category y before a tool of category x, and
\* the listing is answered.
C23_Witness ==
    /\ pc = "serving"
    /\ last.fn = "list_tools"
    /\ Len(TOOL_REGISTRY) = MaxServeTools
    /\ TOOL_REGISTRY[1].category = <<"y">>
    /\ TOOL_REGISTRY[2].category = <<"x">>
    /\ Len(ret.body.categories) = 2

\* The response a request gets when no other request is in flight.
Alone(request) ==
    IF request.fn = "POST"
    THEN handle_post(register_routes(TOOL_REGISTRY).routes, request.name,
                     request.body, request.behaviour).response
    ELSE handle_get(register_routes(TOOL_REGISTRY), request)

\* C27: whatever the requests in flight, a request is answered as when it
\* runs alone, and no step of a request changes the registry, the category
\* map, the lookup table or the routes.
C27_RequestsAreIndependent ==
    /\ [](\A slot \in Slots : Answered(slot) => ret[slot] = Alone(args[slot]))
    /\ [][rest' = rest /\ TOOL_REGISTRY' = TOOL_REGISTRY]_vars

\* Two execute requests for one tool were suspended at the same time and
\* were answered differently.
C27_Witness ==
    /\ \A slot \in Slots : Answered(slot) /\ last[slot].resumed /\ last[slot].overlap
    /\ args[1].name = args[2].name
    /\ args[1].behaviour # args[2].behaviour
    /\ ret[1] # ret[2]

-----------------------------------------------------------------------------
(* Claims about the application that create_app returns *)

InfoAnswered == pc = "serving" /\ last.fn \in InfoFns

\* The tools of the filtered list that have a category.
FilteredOf(category) ==
    {i \in 1..Len(filtered) : filtered[i].category = category}

AtRegistration == SelectSeq(TOOL_REGISTRY, LAMBDA reg : reg.func # LateFunc)

\* The tool names an info response shows.
NamesShown(response) ==
    IF response.status # 200 THEN {}
    ELSE IF "total_tools" \in DOMAIN response.body
    THEN UNION {{response.body.categories[k].tools[j].name :
                    j \in 1..Len(response.body.categories[k].tools)} :
                k \in 1..Len(response.body.categories)}
    ELSE IF "tools" \in DOMAIN response.body
    THEN {response.body.tools[j].name : j \in 1..Len(response.body.tools)}
    ELSE {response.body.name}

StepsOfCreateApp ==
    {<<"call", "import">>, <<"import", "discovered">>, <<"discovered", "loaded">>,
     <<"discovered", "failed">>, <<"loaded", "filtered">>, <<"loaded", "failed">>,
     <<"filtered", "serving">>}

=============================================================================
